---- MODULE Spec2Model ----
(***************************************************************************)
(* Model of the nedlia performance-test harness:                           *)
(*   - ConsistencyTester (tools/performance-tests/consistency/             *)
(*     consistency_test.py): a batch of concurrent consistency probes,     *)
(*     gathered and aggregated;                                            *)
(*   - EventProducer (tools/performance-tests/producers/event_producer.py):*)
(*     a paced, count-terminated publish loop.                             *)
(*                                                                         *)
(* Time.  time.time() is read as an integer number of clock ticks; one     *)
(* second is TicksPerSec ticks, one tick being the poll interval.  The     *)
(* clock never goes backwards and asyncio.sleep(d) takes at least d.  The  *)
(* code's float seconds are tick counts here, and its "* 1000" conversions *)
(* to milliseconds are Ms(_).  slo_seconds is a whole number of SLO units  *)
(* (1/SloUnitsPerSec s), finer than a tick.                                *)
(***************************************************************************)
EXTENDS Integers, Sequences, FiniteSets, TLC

\* ---------------------------------------------------------------- bounds
\* Number of probes launched by one test_placement_consistency(num_events)
\* in the batch specification.
NumProbes == 2
\* slo_seconds is a multiple of 1/SloUnitsPerSec seconds (0.05 s) ...
SloUnitsPerSec == 20
\* ... from 1 to MaxSloUnits of them (0.05 s to 0.30 s) for a single probe,
MaxSloUnits == 6
\* and from 1 to MaxBatchSlo of them (0.05 s, 0.10 s) for a batch.
MaxBatchSlo == 2
\* The clock runs freely up to this reading for a single probe,
MaxSoloClock == 3
\* and up to this one for a batch; afterwards it advances only while some
\* coroutine is suspended in asyncio.sleep and is not yet due.
MaxBatchClock == 1
\* ProducerConfig: events_per_second in 0..MaxRate, duration_seconds in
\* 0..MaxDuration, ramp_up_seconds in 0..MaxRampUp.
MaxRate == 2
MaxDuration == 2
MaxRampUp == 2
\* The clock runs freely up to this reading while the producer runs.
MaxProducerClock == 2
\* Result lists handed to _analyze_results on their own: 0..MaxFew, about
\* half of MaxInTime, or nearly MaxInTime results that are consistent within
\* the SLO, and up to MaxOfEach of each other kind (consistent but late,
\* timed out, write failed),
MaxFew == 12
MaxInTime == 102
MaxOfEach == 1
\* their latencies spread by a stride of 1..MaxStride.
MaxStride == 2
\* A wall-clock deadline for a batch, in ticks after its launch at 0.
BatchDeadline == 1
\* The number of requests a chaos test issues (the code: 100 in the burst,
\* 10 concurrent duplicates, 5 sequential duplicates),
NumRequests == 3
\* and the reading up to which the clock runs freely while it runs.
MaxChaosClock == 1

\* ------------------------------------------------------------- time base
\* "max_polls = int(self.slo * 10)  # Poll every 100ms": polls per second.
PollsPerSec == 10
\* The clock is read in units of the poll interval.
TicksPerSec == PollsPerSec
\* Duration of asyncio.sleep(0.1) in ticks.
PollTicks == TicksPerSec \div PollsPerSec
\* (t1 - t0) * 1000 for a difference of d ticks.
Ms(d) == (d * 1000) \div TicksPerSec

Probes == 1..NumProbes

\* A local that has not been assigned yet (Python: unbound / None).
None == 0 - 1

VARIABLES
    num_events,     \* the argument of test_placement_consistency
    free_until,     \* the reading up to which the clock runs freely
    now,            \* the clock: what time.time() returns, in ticks
    slo,            \* self.slo, in units of 1/SloUnitsPerSec seconds
    pc,             \* per probe: where the coroutine is suspended
    start_time,     \* per probe: local start_time
    write_time,     \* per probe: local write_time
    placement_id,   \* per probe: local placement_id
    consistent,     \* per probe: local consistent
    poll_count,     \* per probe: local poll_count
    sleep_start,    \* per probe: clock reading when asyncio.sleep was called
    outcome,        \* per probe: what its task hands to asyncio.gather
    next_id,        \* system under test: next placement identifier
    post_reply,     \* history: the reply each probe's POST received
    get_keys,       \* history: per probe, the sequence of keys of its GETs
    first_hit,      \* history: per probe, which of its GETs first found
                    \* file_url populated (0: none so far)
    bad_reads,      \* history: per probe, how many of its GETs raised or
                    \* came back with a status other than 200
    results,        \* self.results
    report,         \* what test_placement_consistency returned
    \* ---- EventProducer
    config,         \* self.config: events_per_second, duration_seconds,
                    \* ramp_up_seconds
    sink,           \* the event bus: "up", "down" or "flaky"
    p_pc,           \* where run() is
    total_events,   \* run(): local total_events
    p_start_time,   \* run(): local start_time
    events_sent,    \* run(): local events_sent
    current_rate,   \* run(): local current_rate, a fraction num/den per second
    p_sleep_start,  \* clock reading when asyncio.sleep(interval) was called
    produced_events,\* self.produced_events: the events, by their number
    errors,         \* self.errors
    next_event,     \* the number of the next event _create_event builds
    sink_log,       \* history: the outcome of every put_events call
    producer_report,\* what run() returned
    \* ---- the test functions
    verdict,        \* how the running test function ended: "running",
                    \* "passed", or the exception that left it
    scenario,       \* which chaos test runs ("none": none)
    req_pc,         \* per request: where its coroutine (or the loop turn
                    \* that issues it) is
    req_start,      \* per request: local start
    responses,      \* per request: what its call handed back
    chaos_report    \* the figures the chaos test printed

probe_vars == <<num_events, slo, pc, start_time, write_time, placement_id,
                consistent, poll_count, sleep_start, outcome, next_id,
                post_reply, get_keys, first_hit, bad_reads, results, report>>

producer_vars == <<config, sink, p_pc, total_events, p_start_time,
                   events_sent, current_rate, p_sleep_start, produced_events,
                   errors, next_event, sink_log, producer_report>>

scenario_vars == <<verdict, scenario, req_pc, req_start, responses,
                   chaos_report>>

vars == <<free_until, now, probe_vars, producer_vars, scenario_vars>>

\* ------------------------------------------------------ request client
\* Replies of POST /v1/placements: a status with a body carrying data.id, a
\* 201 whose body lacks data.id, or an exception raised by the call.
PostKinds == {"created", "rejected", "malformed", "raises"}
\* Replies of GET /v1/placements/{id}: 200 with file_url populated, 200
\* without it, another status, or an exception raised by the call.
GetKinds == {"populated", "pending", "not_found", "raises"}

StatusCreated == 201
StatusOk == 200
StatusNotImplemented == 501
StatusNotFound == 404

\* assert results["slo_percentage"] >= 95
SloThreshold == 95

\* response.status_code of a POST reply (0: the call raised, no response).
PostStatus(kind) ==
    CASE kind = "created" -> StatusCreated
      [] kind = "malformed" -> StatusCreated
      [] kind = "rejected" -> StatusNotImplemented
      [] OTHER -> 0

\* placement.status_code of a GET reply (0: the call raised, no response).
GetStatus(kind) ==
    CASE kind = "populated" -> StatusOk
      [] kind = "pending" -> StatusOk
      [] kind = "not_found" -> StatusNotFound
      [] OTHER -> 0

NoReply == [kind |-> "none", status |-> 0, id |-> None]
Pending == [pending |-> TRUE]
NoRate == [num |-> 0, den |-> 1]

\* ------------------------------------------------------------- the probe
\* max_polls = int(self.slo * 10), self.slo being s units.
MaxPolls_ceil(s) == (s * PollsPerSec + SloUnitsPerSec - 1) \div SloUnitsPerSec
MaxPolls(s) == (s * PollsPerSec) \div SloUnitsPerSec

\* The while condition: not consistent and poll_count < max_polls.
KeepPolling_ignore_consistent(c, n, s) == n < MaxPolls(s)
KeepPolling_one_more(c, n, s) == (~c) /\ n <= MaxPolls(s)
KeepPolling(c, n, s) == (~c) /\ n < MaxPolls(s)

\* "within_slo": (end_time - start_time) <= self.slo, the left side in ticks
\* and the right side in SLO units
WithinSlo(s, e) == (e - s) * SloUnitsPerSec <= slo * TicksPerSec

\* The key of the GET issued by probe i: f"/v1/placements/{placement_id}".
GetKey_shared(i) == next_id - 1
GetKey(i) == placement_id[i]

\* if response.status_code != 201
CreateFailed_never(status) == FALSE
CreateFailed(status) == status # StatusCreated

\* The dict returned when the create failed.
WriteFailedResult(i, status) ==
    [correlation_id |-> i,
     error |-> status,
     consistent |-> FALSE,
     within_slo |-> FALSE]

\* The dict returned after polling: placement id pid, write_time wt,
\* end_time e, consistent c, poll_count n.
ProbeResult_shared_counter(i, pid, wt, e, c, n) ==
    [correlation_id |-> i,
     placement_id |-> pid,
     write_latency_ms |-> Ms(wt - start_time[i]),
     consistency_latency_ms |-> Ms(e - start_time[i]),
     consistent |-> c,
     within_slo |-> WithinSlo(start_time[i], e),
     poll_count |-> Cardinality({jk \in (1..num_events) \X (1..PollsPerSec) :
                                   jk[2] <= poll_count[jk[1]]})]
ProbeResult_from_write(i, pid, wt, e, c, n) ==
    [correlation_id |-> i,
     placement_id |-> pid,
     write_latency_ms |-> Ms(wt - start_time[i]),
     consistency_latency_ms |-> Ms(e - wt),
     consistent |-> c,
     within_slo |-> WithinSlo(start_time[i], e),
     poll_count |-> n]
ProbeResult(i, pid, wt, e, c, n) ==
    [correlation_id |-> i,
     placement_id |-> pid,
     write_latency_ms |-> Ms(wt - start_time[i]),
     consistency_latency_ms |-> Ms(e - start_time[i]),
     consistent |-> c,
     within_slo |-> WithinSlo(start_time[i], e),
     poll_count |-> n]

\* What a raising task hands to gather(return_exceptions=True).
Raised(what) == [exception |-> what]

\* The elements of a list.
Range(xs) == {xs[k] : k \in DOMAIN xs}

\* isinstance(r, dict)
IsDict(r) == "exception" \notin DOMAIN r

\* The try block of one poll: consistent becomes True on a 200 whose data has
\* file_url populated; any other reply, or an exception, leaves it as it is.
TryRead(c, kind) ==
    IF GetStatus(kind) = StatusOk /\ kind = "populated" THEN TRUE ELSE c

\* After the poll of probe i got `kind`: does the loop go round again?
PollAgain_break_on_error(i, kind) ==
    /\ kind # "raises"
    /\ KeepPolling(TryRead(consistent[i], kind), poll_count[i], slo)
PollAgain(i, kind) ==
    KeepPolling(TryRead(consistent[i], kind), poll_count[i], slo)

\* ------------------------------------------------------- the aggregation
\* r.get(key) of a result dict, for the boolean keys.
Get(r, key) == IF key \in DOMAIN r THEN r[key] ELSE FALSE

\* (A list comprehension with a condition, [r for r in rs if keep(r)], is
\* SelectSeq: the kept elements in their order.)

\* [r for r in self.results if isinstance(r, dict)]
OnlyDicts_no_filter(rs) == rs
OnlyDicts(rs) == SelectSeq(rs, IsDict)

\* [r["consistency_latency_ms"] for r in self.results if r.get("consistent")]
Latencies_of_polled(rs) ==
    LET kept == SelectSeq(rs, LAMBDA r : "consistency_latency_ms" \in DOMAIN r)
    IN [k \in DOMAIN kept |-> kept[k].consistency_latency_ms]
Latencies(rs) ==
    LET kept == SelectSeq(rs, LAMBDA r : Get(r, "consistent"))
    IN [k \in DOMAIN kept |-> kept[k].consistency_latency_ms]

\* sum(1 for r in self.results if r.get(key))
CountIf(rs, key) == Cardinality({k \in DOMAIN rs : Get(rs[k], key)})

\* sorted(latencies)
Sorted_descending(xs) == SortSeq(xs, LAMBDA a, b : a > b)
Sorted(xs) == SortSeq(xs, LAMBDA a, b : a < b)

\* a / b * 100, kept exact as a fraction
Percentage(a, b) == [num |-> a * 100, den |-> b]

\* sorted_latencies[k], Python's index k counting from 0
At(xs, k) == xs[k + 1]

\* max(latencies) and min(latencies)
Max(xs) == CHOOSE x \in Range(xs) : \A y \in Range(xs) : y <= x
Min(xs) == CHOOSE x \in Range(xs) : \A y \in Range(xs) : x <= y

\* The dict returned when no result is consistent (if not latencies).
NoConsistency_zero_stats(rs) ==
    [total_events |-> Len(rs),
     consistent_count |-> 0,
     within_slo_count |-> 0,
     slo_percentage |-> Percentage(0, 1),
     p50_latency_ms |-> 0,
     p90_latency_ms |-> 0,
     p99_latency_ms |-> 0,
     max_latency_ms |-> 0,
     min_latency_ms |-> 0]
NoConsistency(rs) ==
    [total_events |-> Len(rs),
     consistent_count |-> 0,
     slo_percentage |-> Percentage(0, 1),
     error |-> "No events reached consistency"]

\* _analyze_results on self.results = rs
AnalyzeResults(rs) ==
    IF rs = <<>> THEN [error |-> "No results"]
    ELSE IF Latencies(rs) = <<>>
    THEN NoConsistency(rs)
    ELSE LET sorted_latencies == Sorted(Latencies(rs))
             n == Len(sorted_latencies)
         IN [total_events |-> Len(rs),
             consistent_count |-> CountIf(rs, "consistent"),
             within_slo_count |-> CountIf(rs, "within_slo"),
             slo_percentage |-> Percentage(CountIf(rs, "within_slo"), Len(rs)),
             p50_latency_ms |-> At(sorted_latencies, n \div 2),
             p90_latency_ms |-> At(sorted_latencies, (n * 9) \div 10),
             p99_latency_ms |-> IF n > 100
                                THEN At(sorted_latencies, (n * 99) \div 100)
                                ELSE At(sorted_latencies, n - 1),
             max_latency_ms |-> Max(Latencies(rs)),
             min_latency_ms |-> Min(Latencies(rs))]

\* What gather(*tasks, return_exceptions=True) returns: the tasks' outcomes
\* in the order of the tasks.
Gathered == [i \in 1..num_events |-> outcome[i]]

\* ---------------------------------------------------------------- actions
\* tasks = [self._single_consistency_test() for _ in range(num_events)]
Launched == 1..num_events

\* ConsistencyTester(api_client, slo_seconds) with slo_seconds in slos,
\* about to run test_placement_consistency(n).
TesterInit(n, slos) ==
    /\ num_events = n
    /\ slo \in slos
    /\ pc = [i \in Probes |-> "created"]
    /\ start_time = [i \in Probes |-> None]
    /\ write_time = [i \in Probes |-> None]
    /\ placement_id = [i \in Probes |-> None]
    /\ consistent = [i \in Probes |-> FALSE]
    /\ poll_count = [i \in Probes |-> None]
    /\ sleep_start = [i \in Probes |-> None]
    /\ outcome = [i \in Probes |-> Pending]
    /\ next_id = 1
    /\ post_reply = [i \in Probes |-> NoReply]
    /\ get_keys = [i \in Probes |-> <<>>]
    /\ first_hit = [i \in Probes |-> 0]
    /\ bad_reads = [i \in Probes |-> 0]
    /\ results = <<>>
    /\ report = Pending

\* No EventProducer has been constructed.
NoProducer ==
    /\ config = [events_per_second |-> 0, duration_seconds |-> 0,
                 ramp_up_seconds |-> 0]
    /\ sink = "up"
    /\ p_pc = "none"
    /\ total_events = None
    /\ p_start_time = None
    /\ events_sent = None
    /\ current_rate = NoRate
    /\ p_sleep_start = None
    /\ produced_events = <<>>
    /\ errors = 0
    /\ next_event = 1
    /\ sink_log = <<>>
    /\ producer_report = Pending

\* No chaos test runs.
NoScenario ==
    /\ scenario = "none"
    /\ req_pc = <<>>
    /\ req_start = <<>>
    /\ responses = <<>>
    /\ chaos_report = Pending

\* The coroutine of probe i has returned or raised: its time stamps and its
\* placement_id live on only in the dict it returned (consistent goes back to
\* False; poll_count is kept, as the count of the polls it made).
Drop(f, i) == [f EXCEPT ![i] = None]

\* The task of probe i runs up to its first suspension: correlation_id and
\* start_time are taken and the POST is issued.  gather starts the tasks in
\* the order of the list.
StartProbe(i) ==
    /\ pc[i] = "created"
    /\ \A j \in Launched : j < i => pc[j] # "created"
    /\ start_time' = [start_time EXCEPT ![i] = now]
    /\ pc' = [pc EXCEPT ![i] = "writing"]
    /\ UNCHANGED <<producer_vars, scenario_vars>>
    /\ UNCHANGED <<num_events, free_until, now, slo, write_time, placement_id,
                   consistent, poll_count, sleep_start, outcome, next_id,
                   post_reply, get_keys, first_hit, bad_reads, results,
                   report>>

\* The POST of probe i returns (or raises) and the coroutine runs on to its
\* next suspension: the first asyncio.sleep, or its return.  The event loop
\* runs the first step of every task gather created before it looks at the
\* network again, so no reply is seen before every POST has been issued.
PostReturns(i, kind) ==
    /\ pc[i] = "writing"
    /\ \A j \in Launched : pc[j] # "created"
    /\ post_reply' = [post_reply EXCEPT ![i] =
           [kind |-> kind, status |-> PostStatus(kind),
            id |-> IF kind = "created" THEN next_id ELSE None]]
    /\ next_id' = IF kind = "created" THEN next_id + 1 ELSE next_id
    /\ IF kind = "raises"
       THEN \* the call raised
            /\ pc' = [pc EXCEPT ![i] = "raised"]
            /\ outcome' = [outcome EXCEPT ![i] = Raised(kind)]
            /\ start_time' = Drop(start_time, i)
            /\ UNCHANGED <<write_time, placement_id, sleep_start, poll_count>>
       ELSE IF CreateFailed(PostStatus(kind))
       THEN /\ pc' = [pc EXCEPT ![i] = "done"]
            /\ outcome' = [outcome EXCEPT ![i] =
                   WriteFailedResult(i, PostStatus(kind))]
            /\ start_time' = Drop(start_time, i)
            /\ UNCHANGED <<write_time, placement_id, sleep_start, poll_count>>
       ELSE IF kind = "malformed"
       THEN \* response.json()["data"]["id"] raised
            /\ pc' = [pc EXCEPT ![i] = "raised"]
            /\ outcome' = [outcome EXCEPT ![i] = Raised(kind)]
            /\ start_time' = Drop(start_time, i)
            /\ UNCHANGED <<write_time, placement_id, sleep_start, poll_count>>
       ELSE IF KeepPolling(FALSE, 0, slo)
       THEN /\ placement_id' = [placement_id EXCEPT ![i] = next_id]
            /\ write_time' = [write_time EXCEPT ![i] = now]
            /\ poll_count' = [poll_count EXCEPT ![i] = 0]
            /\ pc' = [pc EXCEPT ![i] = "sleeping"]
            /\ sleep_start' = [sleep_start EXCEPT ![i] = now]
            /\ UNCHANGED <<start_time, outcome>>
       ELSE /\ pc' = [pc EXCEPT ![i] = "done"]
            /\ outcome' = [outcome EXCEPT ![i] =
                   ProbeResult(i, next_id, now, now, FALSE, 0)]
            /\ start_time' = Drop(start_time, i)
            /\ UNCHANGED <<write_time, placement_id, sleep_start, poll_count>>
    /\ UNCHANGED <<producer_vars, scenario_vars>>
    /\ UNCHANGED <<num_events, free_until, now, slo, consistent, get_keys,
                   first_hit, bad_reads, results, report>>

\* asyncio.sleep(0.1) is over: poll_count += 1 and the GET is issued.
IssueGet(i) ==
    /\ pc[i] = "sleeping"
    /\ now >= sleep_start[i] + PollTicks
    /\ poll_count' = [poll_count EXCEPT ![i] = @ + 1]
    /\ get_keys' = [get_keys EXCEPT ![i] = Append(@, GetKey(i))]
    /\ pc' = [pc EXCEPT ![i] = "reading"]
    /\ sleep_start' = Drop(sleep_start, i)
    /\ UNCHANGED <<producer_vars, scenario_vars>>
    /\ UNCHANGED <<num_events, free_until, now, slo, start_time, write_time,
                   placement_id, consistent, outcome, next_id, post_reply,
                   first_hit, bad_reads, results, report>>

\* The GET of probe i returns (or raises, which the except clause swallows);
\* the loop condition is evaluated and the coroutine sleeps again or returns
\* its result.
GetReturns(i, kind) ==
    /\ pc[i] = "reading"
    /\ first_hit' = [first_hit EXCEPT ![i] =
           IF @ = 0 /\ kind = "populated" THEN Len(get_keys[i]) ELSE @]
    /\ bad_reads' = [bad_reads EXCEPT ![i] =
           IF kind \in {"not_found", "raises"} THEN @ + 1 ELSE @]
    /\ IF PollAgain(i, kind)
       THEN /\ consistent' = [consistent EXCEPT ![i] = TryRead(@, kind)]
            /\ pc' = [pc EXCEPT ![i] = "sleeping"]
            /\ sleep_start' = [sleep_start EXCEPT ![i] = now]
            /\ UNCHANGED <<outcome, start_time, write_time, placement_id>>
       ELSE /\ pc' = [pc EXCEPT ![i] = "done"]
            /\ outcome' = [outcome EXCEPT ![i] =
                   ProbeResult(i, placement_id[i], write_time[i], now,
                               TryRead(consistent[i], kind), poll_count[i])]
            /\ consistent' = [consistent EXCEPT ![i] = FALSE]
            /\ start_time' = Drop(start_time, i)
            /\ write_time' = Drop(write_time, i)
            /\ placement_id' = Drop(placement_id, i)
            /\ UNCHANGED sleep_start
    /\ UNCHANGED <<producer_vars, scenario_vars>>
    /\ UNCHANGED <<num_events, free_until, now, slo, poll_count, next_id,
                   post_reply, get_keys, results, report>>

\* Every task has finished: gather returns, the exceptions are filtered out
\* and _analyze_results builds the report.
Gather ==
    /\ report = Pending
    /\ \A i \in Launched : pc[i] \in {"done", "raised"}
    /\ results' = OnlyDicts(Gathered)
    /\ report' = AnalyzeResults(OnlyDicts(Gathered))
    /\ UNCHANGED <<producer_vars, scenario_vars>>
    /\ UNCHANGED <<num_events, free_until, now, slo, pc, start_time,
                   write_time, placement_id, consistent, poll_count,
                   sleep_start, outcome, next_id, post_reply, get_keys,
                   first_hit, bad_reads>>

\* Some coroutine is suspended in asyncio.sleep(0.1) and is not due yet.
SleeperWaiting ==
    \E i \in Launched : pc[i] = "sleeping" /\ now < sleep_start[i] + PollTicks

\* The clock advances by one tick.
Tick ==
    /\ report = Pending
    /\ now < free_until \/ SleeperWaiting
    /\ now' = now + 1
    /\ UNCHANGED <<producer_vars, scenario_vars>>
    /\ UNCHANGED <<free_until, probe_vars>>

\* results["slo_percentage"] >= 95, for a percentage pct and a threshold t
MeetsThreshold(pct, t) == pct.num >= t * pct.den

\* The keys test_placement_consistency_slo subscripts before its assert.
PrintedKeys ==
    {"total_events", "consistent_count", "within_slo_count", "slo_percentage"}

\* How test_placement_consistency_slo ends on the report r: a missing key
\* raises KeyError in its prints, the assert raises AssertionError.
SloTestOutcome_missing_is_zero(r) ==
    IF "slo_percentage" \in DOMAIN r
          /\ MeetsThreshold(r.slo_percentage, SloThreshold)
    THEN "passed"
    ELSE "AssertionError"
SloTestOutcome(r) ==
    IF ~(PrintedKeys \subseteq DOMAIN r) THEN "KeyError"
    ELSE IF MeetsThreshold(r.slo_percentage, SloThreshold) THEN "passed"
    ELSE "AssertionError"

\* test_placement_consistency has returned its report to
\* test_placement_consistency_slo, which prints it and asserts the SLO.
SloTest ==
    /\ report # Pending
    /\ verdict = "running"
    /\ verdict' = SloTestOutcome(report)
    /\ UNCHANGED <<scenario, req_pc, req_start, responses, chaos_report>>
    /\ UNCHANGED <<free_until, now, probe_vars, producer_vars>>

Next ==
    \/ \E i \in Launched : StartProbe(i)
    \/ \E i \in Launched : \E kind \in PostKinds : PostReturns(i, kind)
    \/ \E i \in Launched : IssueGet(i)
    \/ \E i \in Launched : \E kind \in GetKinds : GetReturns(i, kind)
    \/ Gather
    \/ Tick
    \/ SloTest

\* A batch of NumProbes concurrent probes.
Init ==
    /\ now = 0
    /\ free_until = MaxBatchClock
    /\ TesterInit(NumProbes, 1..MaxBatchSlo)
    /\ NoProducer
    /\ NoScenario
    /\ verdict = "running"
Spec == Init /\ [][Next]_vars

\* One probe, over the whole range of SLO values.
ProbeInit ==
    /\ now = 0
    /\ free_until = MaxSoloClock
    /\ TesterInit(1, 1..MaxSloUnits)
    /\ NoProducer
    /\ NoScenario
    /\ verdict = "running"
ProbeSpec == ProbeInit /\ [][Next]_vars

\* A sweep of either kind in which every call of the request client returns
\* or raises in the end, the sleeps end and the event loop runs whatever is
\* ready: as long as a step is possible, one is taken.
SweepInit == Init \/ ProbeInit
FairSpec == SweepInit /\ [][Next]_vars /\ WF_vars(Next)

\* ------------------------------------------- the aggregation on its own
\* The dict a probe returns after polling (correlation id k, consistency
\* reached or given up after `ticks`, consistent c, n polls), as ProbeResult
\* builds it for a write acknowledged at once.
SampleResult(k, ticks, c, n) ==
    [correlation_id |-> k,
     placement_id |-> k,
     write_latency_ms |-> Ms(0),
     consistency_latency_ms |-> Ms(ticks),
     consistent |-> c,
     within_slo |-> WithinSlo(0, ticks),
     poll_count |-> n]

\* The SLO in ticks, for an SLO that is a whole number of ticks.
SloTicks == (slo * TicksPerSec) \div SloUnitsPerSec

\* A list of results as gather leaves it in self.results: a results
\* consistent within the SLO (after 1..SloTicks polls, spread by stride),
\* b consistent on a read that came back late, c timed out at the SLO
\* exactly, d timed out late, e whose write was refused.
SampleResults(a, b, c, d, e, stride) ==
    [k \in 1..a |-> SampleResult(k, 1 + ((k * stride) % SloTicks), TRUE,
                                 1 + ((k * stride) % SloTicks))]
    \o [k \in 1..b |-> SampleResult(a + k, SloTicks + k, TRUE, SloTicks)]
    \o [k \in 1..c |-> SampleResult(a + b + k, SloTicks, FALSE, SloTicks)]
    \o [k \in 1..d |-> SampleResult(a + b + c + k, SloTicks + 1, FALSE,
                                     SloTicks)]
    \o [k \in 1..e |-> WriteFailedResult(a + b + c + d + k,
                                          StatusNotImplemented)]

\* How many of the results are consistent within the SLO: few, 48 (of a
\* sweep of 50), or around the 100 where the p99 index changes.
SampleSizes ==
    (0..MaxFew) \cup {MaxInTime \div 2 - 3} \cup ((MaxInTime - 3)..MaxInTime)

\* return self._analyze_results()
Analyze ==
    /\ report = Pending
    /\ report' = AnalyzeResults(results)
    /\ UNCHANGED <<num_events, slo, pc, start_time, write_time, placement_id,
                   consistent, poll_count, sleep_start, outcome, next_id,
                   post_reply, get_keys, first_hit, bad_reads, results>>
    /\ UNCHANGED <<free_until, now, producer_vars, scenario_vars>>

StatsNext ==
    \/ Analyze
    \/ SloTest

\* gather has returned and self.results holds the dicts of the probes that
\* returned one; the SLO is MaxSloUnits units.
StatsInit ==
    /\ now = 0
    /\ free_until = 0
    /\ slo = MaxSloUnits
    /\ \E a \in SampleSizes : \E b, c, d, e \in 0..MaxOfEach :
          \E stride \in 1..MaxStride :
             /\ results = SampleResults(a, b, c, d, e, stride)
             /\ num_events = a + b + c + d + e
    /\ pc = [i \in Probes |-> "done"]
    /\ start_time = [i \in Probes |-> None]
    /\ write_time = [i \in Probes |-> None]
    /\ placement_id = [i \in Probes |-> None]
    /\ consistent = [i \in Probes |-> FALSE]
    /\ poll_count = [i \in Probes |-> None]
    /\ sleep_start = [i \in Probes |-> None]
    /\ outcome = [i \in Probes |-> Pending]
    /\ next_id = 1
    /\ post_reply = [i \in Probes |-> NoReply]
    /\ get_keys = [i \in Probes |-> <<>>]
    /\ first_hit = [i \in Probes |-> 0]
    /\ bad_reads = [i \in Probes |-> 0]
    /\ report = Pending
    /\ NoProducer
    /\ NoScenario
    /\ verdict = "running"
StatsSpec == StatsInit /\ [][StatsNext]_vars

\* ------------------------------------------------------ the event producer
\* EventProducer(config): __init__ leaves produced_events empty and errors 0.
Constructed(cfg, s) ==
    /\ config = cfg
    /\ sink = s
    /\ p_pc = "constructed"
    /\ total_events = None
    /\ p_start_time = None
    /\ events_sent = None
    /\ current_rate = NoRate
    /\ p_sleep_start = None
    /\ produced_events = <<>>
    /\ errors = 0
    /\ next_event = 1
    /\ sink_log = <<>>
    /\ producer_report = Pending

\* total_events = events_per_second * duration_seconds
TotalEvents(cfg) == cfg.events_per_second * cfg.duration_seconds

\* The while condition: events_sent < total_events.
LoopContinues_wall_clock(sent, total, elapsed) ==
    elapsed < config.duration_seconds * TicksPerSec
LoopContinues(sent, total, elapsed) == sent < total

\* The ramp-up logic: current_rate after `elapsed` ticks, as a fraction of
\* events per second.
CurrentRate_no_floor(cfg, elapsed) ==
    IF elapsed < cfg.ramp_up_seconds * TicksPerSec
    THEN [num |-> cfg.events_per_second * elapsed,
          den |-> cfg.ramp_up_seconds * TicksPerSec]
    ELSE [num |-> cfg.events_per_second, den |-> 1]
CurrentRate_ramp_never_ends(cfg, elapsed) ==
    IF cfg.ramp_up_seconds > 0
    THEN IF cfg.events_per_second * elapsed > cfg.ramp_up_seconds * TicksPerSec
         THEN [num |-> cfg.events_per_second * elapsed,
               den |-> cfg.ramp_up_seconds * TicksPerSec]
         ELSE [num |-> 1, den |-> 1]
    ELSE [num |-> cfg.events_per_second, den |-> 1]
CurrentRate(cfg, elapsed) ==
    IF elapsed < cfg.ramp_up_seconds * TicksPerSec
    THEN \* max(1, events_per_second * (elapsed / ramp_up_seconds))
         IF cfg.events_per_second * elapsed > cfg.ramp_up_seconds * TicksPerSec
         THEN [num |-> cfg.events_per_second * elapsed,
               den |-> cfg.ramp_up_seconds * TicksPerSec]
         ELSE [num |-> 1, den |-> 1]
    ELSE [num |-> cfg.events_per_second, den |-> 1]

\* asyncio.sleep(interval), interval = 1.0 / rate, is over after d ticks.
SleepOver(rate, d) == d * rate.num >= rate.den * TicksPerSec

\* _publish_event: True when put_events returned, False when it raised.
PublishResults(s) ==
    CASE s = "up" -> {TRUE}
      [] s = "down" -> {FALSE}
      [] OTHER -> {TRUE, FALSE}

\* if success: self.produced_events.append(event)
ProducedAfter_always(ok, event) == Append(produced_events, event)
ProducedAfter(ok, event) ==
    IF ok THEN Append(produced_events, event) ELSE produced_events

\* else: self.errors += 1
ErrorsAfter_not_counted(ok) == errors
ErrorsAfter(ok) == IF ok THEN errors ELSE errors + 1

\* events_sent += 1
SentAfter_retry_failed(ok) == IF ok THEN events_sent + 1 ELSE events_sent
SentAfter(ok) == events_sent + 1

\* The ProducerReport run() returns, end_time being e.
ProducerReport(e) ==
    [total_events |-> Len(produced_events),
     target_rate |-> config.events_per_second,
     actual_rate |-> [num |-> Len(produced_events) * TicksPerSec,
                      den |-> e - p_start_time],
     duration_seconds |-> [num |-> e - p_start_time, den |-> TicksPerSec],
     errors |-> errors]

\* run() is called: total_events, start_time and events_sent are set.
Run ==
    /\ p_pc = "constructed"
    /\ total_events' = TotalEvents(config)
    /\ p_start_time' = now
    /\ events_sent' = 0
    /\ p_pc' = "loop"
    /\ UNCHANGED <<config, sink, current_rate, p_sleep_start, produced_events,
                   errors, next_event, sink_log, producer_report>>
    /\ UNCHANGED <<free_until, now, probe_vars, scenario_vars>>

\* One turn of the loop up to the call of put_events: the rate is taken from
\* the elapsed time and the event is built.
BeginPublish ==
    /\ p_pc = "loop"
    /\ LoopContinues(events_sent, total_events, now - p_start_time)
    /\ current_rate' = CurrentRate(config, now - p_start_time)
    /\ p_pc' = "publishing"
    /\ UNCHANGED <<config, sink, total_events, p_start_time, events_sent,
                   p_sleep_start, produced_events, errors, next_event,
                   sink_log, producer_report>>
    /\ UNCHANGED <<free_until, now, probe_vars, scenario_vars>>

\* put_events returns or raises: the event is kept or the error counted,
\* events_sent is advanced and the coroutine sleeps for the interval.
PublishReturns(ok) ==
    /\ p_pc = "publishing"
    /\ ok \in PublishResults(sink)
    /\ sink_log' = Append(sink_log, ok)
    /\ produced_events' = ProducedAfter(ok, next_event)
    /\ errors' = ErrorsAfter(ok)
    /\ events_sent' = SentAfter(ok)
    /\ next_event' = next_event + 1
    /\ p_sleep_start' = now
    /\ p_pc' = "sleeping"
    /\ UNCHANGED <<config, sink, total_events, p_start_time, current_rate,
                   producer_report>>
    /\ UNCHANGED <<free_until, now, probe_vars, scenario_vars>>

\* asyncio.sleep(interval) is over: back to the while condition.
Wake ==
    /\ p_pc = "sleeping"
    /\ SleepOver(current_rate, now - p_sleep_start)
    /\ p_pc' = "loop"
    /\ p_sleep_start' = None
    /\ UNCHANGED <<config, sink, total_events, p_start_time, events_sent,
                   current_rate, produced_events, errors, next_event,
                   sink_log, producer_report>>
    /\ UNCHANGED <<free_until, now, probe_vars, scenario_vars>>

\* The loop is left: the report is built, unless the division by an
\* actual_duration of zero raises.
Finish ==
    /\ p_pc = "loop"
    /\ ~LoopContinues(events_sent, total_events, now - p_start_time)
    /\ IF now - p_start_time = 0
       THEN /\ p_pc' = "raised"
            /\ UNCHANGED producer_report
       ELSE /\ p_pc' = "returned"
            /\ producer_report' = ProducerReport(now)
    /\ UNCHANGED <<config, sink, total_events, p_start_time, events_sent,
                   current_rate, p_sleep_start, produced_events, errors,
                   next_event, sink_log>>
    /\ UNCHANGED <<free_until, now, probe_vars, scenario_vars>>

\* The clock advances by one tick while the producer runs.
ProducerTick ==
    /\ p_pc \in {"constructed", "loop", "publishing", "sleeping"}
    /\ \/ now < free_until
       \/ p_pc = "sleeping" /\ ~SleepOver(current_rate, now - p_sleep_start)
    /\ now' = now + 1
    /\ UNCHANGED <<free_until, probe_vars, producer_vars, scenario_vars>>

ProducerNext ==
    \/ Run
    \/ BeginPublish
    \/ \E ok \in BOOLEAN : PublishReturns(ok)
    \/ Wake
    \/ Finish
    \/ ProducerTick

Configs ==
    [events_per_second : 0..MaxRate,
     duration_seconds : 0..MaxDuration,
     ramp_up_seconds : 0..MaxRampUp]

\* A freshly constructed EventProducer, about to run once.
ProducerInit ==
    /\ now = 0
    /\ free_until = MaxProducerClock
    /\ TesterInit(0, {1})
    /\ \E cfg \in Configs : \E s \in {"up", "down", "flaky"} : Constructed(cfg, s)
    /\ NoScenario
    /\ verdict = "none"
ProducerSpec == ProducerInit /\ [][ProducerNext]_vars

\* The event loop keeps running the coroutine and the clock keeps going.
FairProducerSpec == ProducerSpec /\ WF_vars(ProducerNext)

\* ------------------------------------------------------- the chaos tests
\* The requests of the chaos test under way, numbered in the order of the
\* task list.
Requests == DOMAIN req_pc

\* Replies of POST /v1/placements to a chaos test: 201 or 200 with a body
\* carrying data.id, 200 with a body without data, 200 with an empty body,
\* 429, a client error other than 429 (404), a server error, or an exception
\* raised by the call.
ChaosKinds ==
    {"created", "exists", "no_data", "empty", "limited", "not_found", "failed",
     "raises"}

StatusTooMany == 429
\* The least status counted as a server error, and the number of server
\* errors at which test_high_load_backpressure fails.
ServerErrorFrom == 500
ErrorThreshold == 10

\* response.status_code of a reply (0: the call raised).
ChaosStatus(kind) ==
    CASE kind = "created" -> StatusCreated
      [] kind \in {"exists", "no_data", "empty"} -> StatusOk
      [] kind = "limited" -> StatusTooMany
      [] kind = "not_found" -> StatusNotFound
      [] kind = "failed" -> StatusNotImplemented
      [] OTHER -> 0

\* None, and the empty JSON object.
NoBody == [none |-> TRUE]
EmptyBody == <<>>

\* response.json() of a reply of that kind carrying identifier id.
JsonBody(kind, id) ==
    CASE kind \in {"created", "exists"} -> [data |-> [id |-> id]]
      [] kind = "no_data" -> [message |-> "ok"]
      [] OTHER -> EmptyBody

\* status in [200, 201]
IsSuccess(status) == status \in {StatusOk, StatusCreated}

\* "body": response.json() if response.status_code in [200, 201] else None
BodyOf(kind, id) ==
    IF IsSuccess(ChaosStatus(kind)) THEN JsonBody(kind, id) ELSE NoBody

\* Python's truth value of a body, and r["body"].get("data").
Truthy(body) == body # NoBody /\ body # EmptyBody
HasData(body) == Truthy(body) /\ "data" \in DOMAIN body

\* The identifiers the system under test has handed out so far.
IssuedIds ==
    {responses[r].body.data.id :
        r \in {q \in DOMAIN responses :
                 /\ "body" \in DOMAIN responses[q]
                 /\ HasData(responses[q].body)}}

\* The identifier a reply of that kind can carry: one handed out before (the
\* token is honoured) or a new one (it is not).
ReplyIds(kind) ==
    IF kind \in {"created", "exists"} /\ scenario # "backpressure"
    THEN IssuedIds \cup {Cardinality(IssuedIds) + 1}
    ELSE {None}

\* The dict make_request of test_high_load_backpressure returns for request
\* r: the except clause turns a raising call into a status 0.
BurstDict(kind, elapsed) ==
    IF kind = "raises"
    THEN [status |-> 0, error |-> kind, latency_ms |-> 0]
    ELSE [status |-> ChaosStatus(kind), latency_ms |-> Ms(elapsed)]
BurstResult(r, kind) == BurstDict(kind, now - req_start[r])

\* The dict make_request of test_concurrent_duplicate_requests returns.
DuplicateResult(kind, id) ==
    [status |-> ChaosStatus(kind), body |-> BodyOf(kind, id)]

\* The dict test_duplicate_request_handling appends for attempt r.
AttemptResult(r, kind, id) ==
    [attempt |-> r, status |-> ChaosStatus(kind), body |-> BodyOf(kind, id)]

\* [r for r in results if r["status"] in [200, 201]]
Successful(rs) == SelectSeq(rs, LAMBDA r : IsSuccess(r.status))

\* The ids of the results whose body has data, as a set.
UniqueIds(rs) ==
    {rs[k].body.data.id : k \in {j \in DOMAIN rs : HasData(rs[j].body)}}

\* status_codes.get(code, 0) after the counting loop over the responses.
StatusCount(rs, code) == Cardinality({k \in DOMAIN rs : rs[k].status = code})

\* sum(v for k, v in status_codes.items() if k >= 500)
ServerErrors(rs) ==
    Cardinality({k \in DOMAIN rs : rs[k].status >= ServerErrorFrom})

\* The figures test_high_load_backpressure prints for the responses rs.
BackpressureFigures(rs) ==
    [successful |-> StatusCount(rs, StatusCreated) + StatusCount(rs, StatusOk),
     rate_limited |-> StatusCount(rs, StatusTooMany),
     errors |-> ServerErrors(rs),
     status_codes |-> [code \in {rs[k].status : k \in DOMAIN rs} |->
                          StatusCount(rs, code)]]

\* assert errors < 10
BackpressureVerdict_at_most(rs) ==
    IF ServerErrors(rs) <= ErrorThreshold THEN "passed" ELSE "AssertionError"
BackpressureVerdict(rs) ==
    IF ServerErrors(rs) < ErrorThreshold THEN "passed" ELSE "AssertionError"

\* The figures test_concurrent_duplicate_requests prints for the results rs:
\* the unique placements and the warning only when a request succeeded.
ConcurrentFigures(rs) ==
    IF Successful(rs) # <<>>
    THEN [total_requests |-> Len(rs),
          successful |-> Len(Successful(rs)),
          unique_placements |-> Cardinality(UniqueIds(Successful(rs))),
          warning |-> Cardinality(UniqueIds(Successful(rs))) > 1]
    ELSE [total_requests |-> Len(rs),
          successful |-> Len(Successful(rs))]

\* assert len(successful) == len(results), "Some requests failed"
AllSucceeded(rs) == Len(Successful(rs)) = Len(rs)

\* The verdict of test_duplicate_request_handling on its results rs: only
\* the assert on the statuses can fail it.
SequentialVerdict(rs) ==
    IF AllSucceeded(rs) THEN "passed" ELSE "AssertionError"

\* The statuses test_duplicate_request_handling prints, and after its assert
\* the unique ids, when every body is truthy and some body has data.
SequentialFigures(rs) ==
    IF /\ AllSucceeded(rs)
       /\ \A k \in DOMAIN rs : Truthy(rs[k].body)
       /\ UniqueIds(Successful(rs)) # {}
    THEN [attempts |-> [k \in DOMAIN rs |-> rs[k].status],
          unique_ids |-> Cardinality(UniqueIds(Successful(rs)))]
    ELSE [attempts |-> [k \in DOMAIN rs |-> rs[k].status]]

\* What the awaited gather(*tasks) of the chaos test hands back.
AllResponses == [r \in Requests |-> responses[r]]

\* The chaos test `which` is about to run.
ChaosInit(which) ==
    /\ scenario = which
    /\ req_pc = [r \in 1..NumRequests |-> "created"]
    /\ req_start = [r \in 1..NumRequests |-> None]
    /\ responses = [r \in 1..NumRequests |-> Pending]
    /\ chaos_report = Pending
    /\ verdict = "running"

\* gather starts the make_request tasks in the order of the list: each runs
\* up to its POST (the burst's takes its start time first).
FireRequest(r) ==
    /\ scenario \in {"backpressure", "concurrent"}
    /\ req_pc[r] = "created"
    /\ \A q \in Requests : q < r => req_pc[q] # "created"
    /\ req_pc' = [req_pc EXCEPT ![r] = "waiting"]
    /\ req_start' = [req_start EXCEPT ![r] =
           IF scenario = "backpressure" THEN now ELSE None]
    /\ UNCHANGED <<verdict, scenario, responses, chaos_report>>
    /\ UNCHANGED <<free_until, now, probe_vars, producer_vars>>

\* The POST of burst request r returns or raises; make_request returns its
\* dict either way.
BurstReturns(r, kind) ==
    /\ scenario = "backpressure"
    /\ req_pc[r] = "waiting"
    /\ \A q \in Requests : req_pc[q] # "created"
    /\ responses' = [responses EXCEPT ![r] = BurstResult(r, kind)]
    /\ req_pc' = [req_pc EXCEPT ![r] = "done"]
    /\ req_start' = [req_start EXCEPT ![r] = None]
    /\ UNCHANGED <<verdict, scenario, chaos_report>>
    /\ UNCHANGED <<free_until, now, probe_vars, producer_vars>>

\* Every burst request has returned: the statuses are counted, the figures
\* printed and the server errors asserted.
BackpressureReport ==
    /\ scenario = "backpressure"
    /\ verdict = "running"
    /\ \A r \in Requests : req_pc[r] = "done"
    /\ chaos_report' = BackpressureFigures(AllResponses)
    /\ verdict' = BackpressureVerdict(AllResponses)
    /\ UNCHANGED <<scenario, req_pc, req_start, responses>>
    /\ UNCHANGED <<free_until, now, probe_vars, producer_vars>>

\* The POST of concurrent duplicate r returns or raises.  make_request has
\* no try: a raising call makes its task raise.  The test is still suspended
\* in gather when the task ends.
DuplicateReturns(r, kind, id) ==
    /\ scenario = "concurrent"
    /\ req_pc[r] = "waiting"
    /\ \A q \in Requests : req_pc[q] # "created"
    /\ id \in ReplyIds(kind)
    /\ IF kind = "raises"
       THEN /\ responses' = [responses EXCEPT ![r] = Raised(kind)]
            /\ req_pc' = [req_pc EXCEPT ![r] = "raised"]
       ELSE /\ responses' = [responses EXCEPT ![r] = DuplicateResult(kind, id)]
            /\ req_pc' = [req_pc EXCEPT ![r] = "done"]
    /\ UNCHANGED <<verdict, scenario, req_start, chaos_report>>
    /\ UNCHANGED <<free_until, now, probe_vars, producer_vars>>

\* gather(*tasks), awaited without return_exceptions, has seen a task raise:
\* the test resumes with that exception and ends with it, in a later turn of
\* the event loop than the one the task raised in; the other tasks run on.
GatherRaises ==
    /\ scenario = "concurrent"
    /\ verdict = "running"
    /\ \E r \in Requests : req_pc[r] = "raised"
    /\ verdict' = "Exception"
    /\ UNCHANGED <<scenario, req_pc, req_start, responses, chaos_report>>
    /\ UNCHANGED <<free_until, now, probe_vars, producer_vars>>

\* gather has returned every result: the figures are printed; nothing is
\* asserted.
ConcurrentReport ==
    /\ scenario = "concurrent"
    /\ verdict = "running"
    /\ \A r \in Requests : req_pc[r] = "done"
    /\ chaos_report' = ConcurrentFigures(AllResponses)
    /\ verdict' = "passed"
    /\ UNCHANGED <<scenario, req_pc, req_start, responses>>
    /\ UNCHANGED <<free_until, now, probe_vars, producer_vars>>

\* Turn r of the loop of test_duplicate_request_handling issues its POST,
\* the turn before having slept.
SequentialIssue(r) ==
    /\ scenario = "sequential"
    /\ verdict = "running"
    /\ req_pc[r] = "created"
    /\ \A q \in Requests : q < r => req_pc[q] = "done"
    /\ req_pc' = [req_pc EXCEPT ![r] = "waiting"]
    /\ UNCHANGED <<verdict, scenario, req_start, responses, chaos_report>>
    /\ UNCHANGED <<free_until, now, probe_vars, producer_vars>>

\* The POST of turn r returns: the result is appended and the loop sleeps
\* for 0.1 s (req_start holds when); or it raises, which leaves the test.
SequentialReturns(r, kind, id) ==
    /\ scenario = "sequential"
    /\ req_pc[r] = "waiting"
    /\ id \in ReplyIds(kind)
    /\ IF kind = "raises"
       THEN /\ responses' = [responses EXCEPT ![r] = Raised(kind)]
            /\ req_pc' = [req_pc EXCEPT ![r] = "raised"]
            /\ verdict' = "Exception"
            /\ UNCHANGED req_start
       ELSE /\ responses' = [responses EXCEPT ![r] = AttemptResult(r, kind, id)]
            /\ req_pc' = [req_pc EXCEPT ![r] = "sleeping"]
            /\ req_start' = [req_start EXCEPT ![r] = now]
            /\ UNCHANGED verdict
    /\ UNCHANGED <<scenario, chaos_report>>
    /\ UNCHANGED <<free_until, now, probe_vars, producer_vars>>

\* asyncio.sleep(0.1) of turn r is over.
SequentialWake(r) ==
    /\ scenario = "sequential"
    /\ req_pc[r] = "sleeping"
    /\ now >= req_start[r] + PollTicks
    /\ req_pc' = [req_pc EXCEPT ![r] = "done"]
    /\ req_start' = [req_start EXCEPT ![r] = None]
    /\ UNCHANGED <<verdict, scenario, responses, chaos_report>>
    /\ UNCHANGED <<free_until, now, probe_vars, producer_vars>>

\* The loop is over: the statuses are printed and asserted, then the unique
\* ids are printed.
SequentialReport ==
    /\ scenario = "sequential"
    /\ verdict = "running"
    /\ \A r \in Requests : req_pc[r] = "done"
    /\ chaos_report' = SequentialFigures(AllResponses)
    /\ verdict' = SequentialVerdict(AllResponses)
    /\ UNCHANGED <<scenario, req_pc, req_start, responses>>
    /\ UNCHANGED <<free_until, now, probe_vars, producer_vars>>

\* The clock advances by one tick while a chaos test runs.
ChaosTick ==
    /\ verdict = "running"
    /\ \/ now < free_until
       \/ \E r \in Requests :
             req_pc[r] = "sleeping" /\ now < req_start[r] + PollTicks
    /\ now' = now + 1
    /\ UNCHANGED <<free_until, probe_vars, producer_vars, scenario_vars>>

ChaosNext ==
    \/ \E r \in Requests : FireRequest(r)
    \/ \E r \in Requests : \E kind \in ChaosKinds : BurstReturns(r, kind)
    \/ BackpressureReport
    \/ \E r \in Requests : \E kind \in ChaosKinds :
          \E id \in 1..NumRequests \cup {None} : DuplicateReturns(r, kind, id)
    \/ GatherRaises
    \/ ConcurrentReport
    \/ \E r \in Requests : SequentialIssue(r)
    \/ \E r \in Requests : \E kind \in ChaosKinds :
          \E id \in 1..NumRequests \cup {None} : SequentialReturns(r, kind, id)
    \/ \E r \in Requests : SequentialWake(r)
    \/ SequentialReport
    \/ ChaosTick

\* One of the three chaos tests, about to run.
ChaosSpecInit ==
    /\ now = 0
    /\ free_until = MaxChaosClock
    /\ TesterInit(0, {1})
    /\ NoProducer
    /\ \E which \in {"backpressure", "concurrent", "sequential"} :
          ChaosInit(which)
ChaosSpec == ChaosSpecInit /\ [][ChaosNext]_vars

\* ---------------------------------------------- the burst, near its end
\* The most server errors among the answered requests, the most requests
\* still waiting for their reply, and the most answered requests of every
\* other kind (MaxOfEach).
MaxServerErrors == 10
MaxWaiting == 2

\* The result of make_request for the k-th of the answered requests of a
\* kind (the successes are 201 and 200 in turn), answered at once.
BurstSample(kind, k) ==
    BurstDict(CASE kind = "created" /\ k % 2 = 0 -> "exists"
                [] kind = "limited" /\ k % 2 = 0 -> "not_found"
                [] OTHER -> kind, 0)

\* How many of the answered requests are server errors: none, or about the
\* number the assert of the test allows.
ErrorCounts == {0} \cup ((MaxServerErrors - 2)..MaxServerErrors)

\* The burst of test_high_load_backpressure with every request fired, the
\* first ones answered (a with 201 or 200, l with 429 or 404 in turn, e
\* with a server error, x by raising) and the last w still waiting.
BurstRunning(a, l, e, x, w) ==
    LET answered == [k \in 1..a |-> BurstSample("created", k)]
                    \o [k \in 1..l |-> BurstSample("limited", k)]
                    \o [k \in 1..e |-> BurstSample("failed", k)]
                    \o [k \in 1..x |-> BurstSample("raises", k)]
        K == Len(answered) + w
    IN  /\ K >= 1
        /\ scenario = "backpressure"
        /\ req_pc = [r \in 1..K |->
               IF r <= Len(answered) THEN "done" ELSE "waiting"]
        /\ req_start = [r \in 1..K |-> IF r <= Len(answered) THEN None ELSE 0]
        /\ responses = [r \in 1..K |->
               IF r <= Len(answered) THEN answered[r] ELSE Pending]
        /\ chaos_report = Pending
        /\ verdict = "running"

BurstNext ==
    \/ \E r \in Requests : \E kind \in ChaosKinds : BurstReturns(r, kind)
    \/ BackpressureReport

\* The clock is left where it is: the latencies play no part in the counts.
BurstInit ==
    /\ now = 0
    /\ free_until = 0
    /\ TesterInit(0, {1})
    /\ NoProducer
    /\ \E a, l \in 0..(2 * MaxOfEach) : \E x \in 0..MaxOfEach :
          \E e \in ErrorCounts : \E w \in 0..MaxWaiting :
             BurstRunning(a, l, e, x, w)
BurstSpec == BurstInit /\ [][BurstNext]_vars

\* ------------------------------------------------------------ properties
\* The probes whose coroutine returned a dict / raised.
Returned == {i \in Launched : pc[i] = "done"}
Raisers == {i \in Launched : pc[i] = "raised"}
\* The probes that returned the dict built after polling.
Polled == {i \in Returned : "consistency_latency_ms" \in DOMAIN outcome[i]}
\* The probes that returned the dict built when the create failed.
WriteFailed == {i \in Returned : "error" \in DOMAIN outcome[i]}
\* floor(slo_seconds * 10) and ceil(slo_seconds * 10)
FloorPolls == (slo * 10) \div SloUnitsPerSec
CeilPolls == (slo * 10 + SloUnitsPerSec - 1) \div SloUnitsPerSec
\* slo_seconds * 1000 for an SLO of s units.
SloMs(s) == (s * 1000) \div SloUnitsPerSec
\* The poll interval in milliseconds.
PollIntervalMs == 1000 \div PollsPerSec

\* C1: in every result of a probe, within_slo is true iff
\* consistency_latency_ms <= slo_seconds*1000 and consistent is true (a
\* result without a latency, the write-failed one, has both false).
C1_WithinSloIffInTimeAndConsistent ==
    /\ \A i \in Polled :
          outcome[i].within_slo <=>
              (/\ outcome[i].consistency_latency_ms <= SloMs(slo)
               /\ outcome[i].consistent)
    /\ \A i \in WriteFailed :
          ~outcome[i].within_slo /\ ~outcome[i].consistent

\* C2 as stated: poll_count never exceeds ceil(slo_seconds*10), and a probe
\* that never observes the predicate ends with poll_count = ceil(slo_seconds*10).
C2_TimedOutAtCeil ==
    \A i \in Polled :
        /\ outcome[i].poll_count <= CeilPolls
        /\ ~outcome[i].consistent => outcome[i].poll_count = CeilPolls

\* C2 as amended: poll_count never exceeds floor(slo_seconds*10), and a probe
\* that never observes the predicate ends with poll_count = floor(slo_seconds*10).
C2_TimedOutAtFloor ==
    /\ \A i \in Launched : poll_count[i] <= FloorPolls
    /\ \A i \in Polled :
        /\ outcome[i].poll_count <= FloorPolls
        /\ ~outcome[i].consistent => outcome[i].poll_count = FloorPolls

\* A probe timed out after two polls under an SLO that is not a multiple of
\* the poll interval.
C2_Witness ==
    \E i \in Polled :
        /\ ~outcome[i].consistent
        /\ outcome[i].poll_count = 2
        /\ (slo * 10) % SloUnitsPerSec # 0

\* events_per_second >= 1 and duration_seconds >= 1
ValidConfig ==
    config.events_per_second >= 1 /\ config.duration_seconds >= 1
\* events_per_second * duration_seconds
Target == config.events_per_second * config.duration_seconds
\* The number of put_events calls made so far, and of those that succeeded
\* or failed.
Attempts == Len(sink_log)
Succeeded == Cardinality({k \in DOMAIN sink_log : sink_log[k]})
Failed == Cardinality({k \in DOMAIN sink_log : ~sink_log[k]})

\* While run() is at its while condition, it leaves the loop exactly when
\* the attempts made equal the target, whatever the clock reads; it never
\* makes more attempts than the target and returns after exactly that many.
C3_ExitByCount ==
    ValidConfig =>
        /\ Attempts <= Target
        /\ p_pc # "raised"
        /\ p_pc = "loop" => ((ENABLED Finish) <=> Attempts = Target)
        /\ p_pc = "returned" =>
              /\ Attempts = Target
              /\ events_sent = total_events
              /\ producer_report # Pending

\* C3: for events_per_second >= 1 and duration_seconds >= 1 and any sink
\* outcomes, run() makes exactly events_per_second*duration_seconds publish
\* attempts, leaving the loop by the attempt count alone, and then returns a
\* report.
C3_RunTerminatesByCount ==
    /\ []C3_ExitByCount
    /\ <>(ValidConfig => p_pc = "returned")

\* A run with ramp-up against a sink that failed some calls has returned
\* after four attempts.
C3_Witness ==
    /\ p_pc = "returned"
    /\ Attempts = 4
    /\ config.ramp_up_seconds > 0
    /\ Succeeded > 0 /\ Failed > 0

\* Against a sink that fails every call, errors never exceeds the target and
\* the report has errors = target and nothing published.
C4_EveryFailureCountedOnce ==
    (sink = "down" /\ ValidConfig) =>
        /\ errors = Attempts
        /\ Attempts <= Target
        /\ produced_events = <<>>
        /\ p_pc # "raised"
        /\ p_pc = "returned" =>
              /\ Attempts = Target
              /\ producer_report.errors = Target
              /\ producer_report.total_events = 0

\* C4: against a sink that fails every publish call, run() still terminates
\* after events_per_second*duration_seconds attempts, each counted once as an
\* error, with errors equal to that target.
C4_FailingSinkTerminates ==
    /\ []C4_EveryFailureCountedOnce
    /\ <>((sink = "down" /\ ValidConfig) => p_pc = "returned")

\* A run of four attempts against the failing sink has returned.
C4_Witness ==
    /\ sink = "down"
    /\ p_pc = "returned"
    /\ producer_report.errors = 4

\* C5: the report of one run of a freshly constructed producer has
\* total_events = the publishes that succeeded and errors = those that
\* failed, together events_per_second*duration_seconds; with a sink that
\* always succeeds total_events is that product and errors is 0.
C5_ReportCountsOutcomes ==
    p_pc = "returned" =>
        /\ producer_report.total_events = Succeeded
        /\ producer_report.errors = Failed
        /\ producer_report.total_events + producer_report.errors = Target
        /\ sink = "up" =>
              /\ producer_report.total_events = Target
              /\ producer_report.errors = 0

\* A run has returned a report with both published events and errors; and
\* (second disjunct) they are told apart: a run against the sink that always
\* succeeds has published four events.
C5_Witness ==
    /\ p_pc = "returned"
    /\ \/ producer_report.total_events = 2 /\ producer_report.errors = 2
       \/ sink = "up" /\ producer_report.total_events = 4

\* C6 as stated: a probe whose write was refused issues no read and returns
\* consistent = false, within_slo = false, poll_count = 0 and no placement_id.
C6_WriteFailedPollCountZero ==
    \A i \in Launched :
        (pc[i] = "done" /\ post_reply[i].kind = "rejected") =>
            /\ get_keys[i] = <<>>
            /\ outcome[i].consistent = FALSE
            /\ outcome[i].within_slo = FALSE
            /\ "poll_count" \in DOMAIN outcome[i]
            /\ outcome[i].poll_count = 0
            /\ "placement_id" \notin DOMAIN outcome[i]

\* C6 as amended: a probe whose write was refused ends at once, has issued no
\* read, and returns consistent = false and within_slo = false in a dict that
\* carries neither a placement_id nor a poll_count.
C6_WriteFailedResult ==
    \A i \in Launched :
        post_reply[i].kind = "rejected" =>
            /\ pc[i] = "done"
            /\ get_keys[i] = <<>>
            /\ poll_count[i] = None
            /\ outcome[i].consistent = FALSE
            /\ outcome[i].within_slo = FALSE
            /\ "poll_count" \notin DOMAIN outcome[i]
            /\ "placement_id" \notin DOMAIN outcome[i]

\* The write of a probe was refused and the probe has returned.
C6_Witness ==
    \E i \in Returned : post_reply[i].kind = "rejected"

\* The results gathered for probe i.
ResultsOf(i) == {k \in DOMAIN results : results[k].correlation_id = i}

\* C7 as stated: the aggregate's total_events is the number of probes
\* launched minus the number that raised.
C7_TotalEventsIsLaunchedMinusRaised ==
    report # Pending =>
        /\ "total_events" \in DOMAIN report
        /\ report.total_events = num_events - Cardinality(Raisers)

\* C7 as amended: a raising probe is left out and every other probe has
\* returned and contributes exactly one result; the number of results is the
\* number launched minus the number that raised, which is the aggregate's
\* total_events unless every probe raised, when the aggregate is the
\* "No results" record without a total_events.
C7_RaisedExcluded ==
    report # Pending =>
        /\ \A i \in Launched : pc[i] \in {"done", "raised"}
        /\ \A k \in DOMAIN results : IsDict(results[k])
        /\ \A i \in Returned :
              Cardinality(ResultsOf(i)) = 1 /\ outcome[i] \in Range(results)
        /\ \A i \in Raisers : ResultsOf(i) = {}
        /\ Len(results) = num_events - Cardinality(Raisers)
        /\ IF Len(results) = 0
           THEN report = [error |-> "No results"]
           ELSE report.total_events = num_events - Cardinality(Raisers)

\* A sweep in which one probe raised and another returned has been
\* aggregated.
C7_Witness ==
    /\ report # Pending
    /\ Raisers # {}
    /\ Returned # {}

\* C8: a read that raised or came back with a status other than 200 does not
\* end the probe: it is counted in poll_count, the probe goes on to the poll
\* bound unless a read finds the predicate, and then it ends consistent.
C8_BadReadDoesNotEndProbe ==
    \A i \in Launched :
        bad_reads[i] > 0 =>
            /\ pc[i] # "raised"
            /\ poll_count[i] >= bad_reads[i] + (IF first_hit[i] > 0 THEN 1 ELSE 0)
            /\ pc[i] = "done" =>
                  /\ first_hit[i] > 0 => outcome[i].consistent
                  /\ first_hit[i] = 0 =>
                        /\ ~outcome[i].consistent
                        /\ outcome[i].poll_count = MaxPolls(slo)

\* A probe whose first read failed ended consistent on a later read.
C8_Witness ==
    \E i \in Polled :
        /\ bad_reads[i] > 0
        /\ first_hit[i] > 1
        /\ outcome[i].consistent

\* C9: when the predicate first holds on the k-th read, the probe ends
\* CONSISTENT with poll_count = k, has issued exactly k reads, and reports
\* consistency_latency_ms >= k * 100.
C9_ConsistentOnKthRead ==
    \A i \in Launched :
        first_hit[i] > 0 =>
            /\ pc[i] = "done"
            /\ outcome[i].consistent
            /\ outcome[i].poll_count = first_hit[i]
            /\ Len(get_keys[i]) = first_hit[i]
            /\ outcome[i].consistency_latency_ms >= first_hit[i] * PollIntervalMs

\* The predicate first held on the third read of a probe.
C9_Witness ==
    \E i \in Polled : first_hit[i] = 3 /\ outcome[i].poll_count = 3

\* C10: a probe issues no read before its write has returned 201, and every
\* read is keyed by the identifier its own write returned.
C10_ReadsFollowOwnWrite ==
    \A i \in Launched :
        /\ pc[i] \in {"created", "writing"} => get_keys[i] = <<>>
        /\ get_keys[i] # <<>> =>
              /\ post_reply[i].status = StatusCreated
              /\ \A k \in DOMAIN get_keys[i] : get_keys[i][k] = post_reply[i].id

\* Two probes have both read, the replies to their writes having arrived in
\* the opposite order of their launch.
C10_Witness ==
    \E i, j \in Launched :
        /\ i < j
        /\ get_keys[i] # <<>> /\ get_keys[j] # <<>>
        /\ post_reply[i].id > post_reply[j].id

\* Two percentages are the same number.
SamePercentage(p, q) == p.num * q.den = q.num * p.den
\* The results that count as within the SLO.
WithinCount == CountIf(results, "within_slo")

\* C11: the aggregate's slo_percentage is 100 * (results with within_slo
\* true) / (results), so 48 of 50 give 96; and the sweep passes exactly when
\* that share is at least the threshold (95 here; 96 would fail 97).
C11_SloPercentageIsWithinShare ==
    /\ (report # Pending /\ results # <<>>) =>
          /\ "slo_percentage" \in DOMAIN report
          /\ SamePercentage(report.slo_percentage,
                            Percentage(WithinCount, Len(results)))
          /\ (Len(results) = 50 /\ WithinCount = 48) =>
                /\ SamePercentage(report.slo_percentage, Percentage(96, 100))
                /\ MeetsThreshold(report.slo_percentage, 95)
                /\ ~MeetsThreshold(report.slo_percentage, 97)
    /\ verdict = "passed" =>
          WithinCount * 100 >= SloThreshold * Len(results)

\* The keys of the latency statistics.
StatKeys ==
    {"p50_latency_ms", "p90_latency_ms", "p99_latency_ms", "max_latency_ms",
     "min_latency_ms"}

\* C12: with no result at all the aggregate is the "No results" record, and
\* with results none of which is consistent it is a record with an error
\* text, the number of results and a consistent_count of 0; neither carries a
\* percentile, a minimum or a maximum.
C12_NoDataIsExplicit ==
    (report # Pending /\ Latencies(results) = <<>>) =>
        /\ "error" \in DOMAIN report
        /\ DOMAIN report \cap StatKeys = {}
        /\ IF results = <<>>
           THEN report = [error |-> "No results"]
           ELSE /\ report.total_events = Len(results)
                /\ report.consistent_count = 0

\* Results of which one timed out and one had its write refused, and none is
\* consistent, have been aggregated.
C12_Witness ==
    /\ report # Pending
    /\ Len(results) >= 2
    /\ Latencies(results) = <<>>
    /\ \E k \in DOMAIN results : "error" \in DOMAIN results[k]
    /\ \E k \in DOMAIN results : "poll_count" \in DOMAIN results[k]

\* v is the sample of rank k (counting from 0) of the samples xs in
\* ascending order: at most k samples are below it and more than k are not
\* above it.
HasRank(xs, v, k) ==
    /\ v \in Range(xs)
    /\ Cardinality({j \in DOMAIN xs : xs[j] < v}) <= k
    /\ Cardinality({j \in DOMAIN xs : xs[j] <= v}) > k

\* C13: for n >= 1 latency samples the aggregate's p50, p90 and p99 are the
\* samples of rank n div 2, floor(0.9 n) and (floor(0.99 n) when n > 100,
\* else n - 1), every rank is in 0..n-1, and min <= p50 <= p90 <= p99 <= max.
C13_PercentilesByRank ==
    (report # Pending /\ Latencies(results) # <<>>) =>
        LET xs == Latencies(results)
            n == Len(xs)
            k50 == n \div 2
            k90 == (n * 9) \div 10
            k99 == IF n > 100 THEN (n * 99) \div 100 ELSE n - 1
        IN /\ StatKeys \subseteq DOMAIN report
           /\ {k50, k90, k99} \subseteq 0..(n - 1)
           /\ HasRank(xs, report.p50_latency_ms, k50)
           /\ HasRank(xs, report.p90_latency_ms, k90)
           /\ HasRank(xs, report.p99_latency_ms, k99)
           /\ HasRank(xs, report.min_latency_ms, 0)
           /\ HasRank(xs, report.max_latency_ms, n - 1)
           /\ report.min_latency_ms <= report.p50_latency_ms
           /\ report.p50_latency_ms <= report.p90_latency_ms
           /\ report.p90_latency_ms <= report.p99_latency_ms
           /\ report.p99_latency_ms <= report.max_latency_ms

\* More than 100 samples have been aggregated, and their p99 is not their
\* maximum.
C13_Witness ==
    /\ report # Pending
    /\ Len(Latencies(results)) > 100
    /\ "p99_latency_ms" \in DOMAIN report
    /\ report.p50_latency_ms < report.p99_latency_ms
    /\ report.p99_latency_ms < report.max_latency_ms

\* C14: for events_per_second >= 1 the rate the producer paces itself by is
\* at least 1 event/s with a non-zero denominator (ramp_up_seconds = 0
\* included), so the sleep 1/rate is not over at once and is over after one
\* second at the latest.
C14_RateAtLeastOne ==
    (config.events_per_second >= 1 /\ p_pc \in {"publishing", "sleeping"}) =>
        /\ current_rate.den > 0
        /\ current_rate.num >= current_rate.den
        /\ ~SleepOver(current_rate, 0)
        /\ SleepOver(current_rate, TicksPerSec)
        /\ (p_pc = "sleeping" /\ now - p_sleep_start >= TicksPerSec) =>
              ENABLED Wake

\* At the very start of a ramp-up towards 2 events/s, where the linear rate
\* is 0, the producer paces itself by 1 event/s.
C14_Witness ==
    /\ p_pc = "sleeping"
    /\ config.events_per_second = 2
    /\ config.ramp_up_seconds >= 1
    /\ p_sleep_start = p_start_time
    /\ current_rate = [num |-> 1, den |-> 1]

\* Rate p is at most rate q; p and q are the same rate.
RateLeq(p, q) == p.num * q.den <= q.num * p.den
SameRate(p, q) == p.num * q.den = q.num * p.den
\* events_per_second as a rate, and the ramp-up window in ticks.
TargetRate == [num |-> config.events_per_second, den |-> 1]
RampTicks == config.ramp_up_seconds * TicksPerSec

\* The rate in force never exceeds events_per_second, and without a ramp-up
\* it is events_per_second throughout.
C15_RateCapped ==
    (config.events_per_second >= 1 /\ p_pc \in {"publishing", "sleeping"}) =>
        /\ RateLeq(current_rate, TargetRate)
        /\ config.ramp_up_seconds = 0 => current_rate = TargetRate

\* A turn of the loop that starts after e ticks takes the rate
\* max(1, events_per_second * e / ramp) when e is inside the ramp-up window
\* and events_per_second when it is not, and never a lower rate than the
\* turn before.
C15_RateStep ==
    (config.events_per_second >= 1 /\ p_pc = "loop" /\ p_pc' = "publishing") =>
        LET e == now - p_start_time
            linear == [num |-> config.events_per_second * e, den |-> RampTicks]
        IN /\ e < RampTicks =>
                 IF RateLeq([num |-> 1, den |-> 1], linear)
                 THEN SameRate(current_rate', linear)
                 ELSE current_rate' = [num |-> 1, den |-> 1]
           /\ e >= RampTicks => current_rate' = TargetRate
           /\ current_rate # NoRate => RateLeq(current_rate, current_rate')

\* C15: the effective rate is max(1, events_per_second*elapsed/ramp_up)
\* inside the ramp-up window and events_per_second from elapsed = ramp_up
\* on; it never decreases with elapsed time, never exceeds
\* events_per_second, and with ramp_up_seconds = 0 it is constant.
C15_RampIsMonotoneAndCapped ==
    /\ []C15_RateCapped
    /\ [][C15_RateStep]_vars

\* A turn of the loop took a rate strictly between 1 and events_per_second
\* inside the ramp-up window, after a turn at rate 1.
C15_Witness ==
    /\ p_pc = "publishing"
    /\ Attempts = 1
    /\ current_rate.num > current_rate.den
    /\ current_rate.num < config.events_per_second * current_rate.den

\* ramp_up_seconds > duration_seconds, or a non-positive events_per_second
\* or duration_seconds.
InvalidConfig ==
    \/ config.ramp_up_seconds > config.duration_seconds
    \/ config.events_per_second <= 0
    \/ config.duration_seconds <= 0

\* C16: with a configuration error the producer stops before it builds or
\* publishes any event, and returns no report.
C16_ConfigErrorFailsFast ==
    (p_pc # "none" /\ InvalidConfig) =>
        /\ p_pc \notin {"publishing", "sleeping", "returned"}
        /\ next_event = 1
        /\ Attempts = 0
        /\ producer_report = Pending

\* The probes of the batch that have neither returned nor raised.
StillPending == {i \in Launched : pc[i] \notin {"done", "raised"}}

\* C17: once the batch's wall-clock deadline has passed, the batch does not
\* wait for the probes still pending: it can return its report without them,
\* and a report it has returned holds no result of a probe that was pending.
C17_DeadlineAbandonsPending ==
    /\ (report = Pending /\ now >= BatchDeadline /\ StillPending # {}) =>
          ENABLED Gather
    /\ report # Pending =>
          \A i \in StillPending : ResultsOf(i) = {}

\* The keys an aggregate can carry besides a verdict: the figures and the
\* error text.
FigureKeys ==
    StatKeys \cup {"total_events", "consistent_count", "within_slo_count",
                   "slo_percentage", "error"}

\* Every probe has finished and the sweep is about to return its report.
SweepFinishing == report = Pending /\ StillPending = {}

\* C19 as stated: the sweep returns, whatever the probes' outcomes and
\* without raising, a report that carries a pass/fail field besides its
\* figures, and the caller fails the suite from that report.
C19_ReportCarriesPassFail ==
    /\ SweepFinishing => ENABLED Gather
    /\ report # Pending =>
          /\ DOMAIN report \ FigureKeys # {}
          /\ verdict \in {"running", "passed", "AssertionError", "KeyError"}

\* C19 as amended: the sweep returns a report for every outcome of the
\* probes and never raises; the report holds figures (or an error text)
\* only, no pass/fail field; the caller decides: it passes when
\* slo_percentage >= 95, raises AssertionError when it is below, and raises
\* KeyError on a report that lacks one of the figures it prints (no
\* results, or no consistent result); the report is what the sweep returned
\* in each case.
C19_CallerDecidesFromReport ==
    /\ SweepFinishing => ENABLED Gather
    /\ report # Pending =>
          /\ DOMAIN report \subseteq FigureKeys
          /\ report = AnalyzeResults(results)
          /\ verdict = "running" => ENABLED SloTest
          /\ verdict \in {"running", "passed", "AssertionError", "KeyError"}
          /\ verdict = "passed" =>
                /\ "slo_percentage" \in DOMAIN report
                /\ MeetsThreshold(report.slo_percentage, SloThreshold)
          /\ verdict = "AssertionError" =>
                /\ "slo_percentage" \in DOMAIN report
                /\ ~MeetsThreshold(report.slo_percentage, SloThreshold)
          /\ verdict = "KeyError" =>
                \/ results = <<>>
                \/ Latencies(results) = <<>>
    /\ report = Pending => verdict = "running"

\* A sweep missed the SLO with one probe of two within it: the report was
\* returned and the caller raised the AssertionError.
C19_Witness ==
    /\ verdict = "AssertionError"
    /\ report.within_slo_count = 1
    /\ report.total_events = 2

\* The requests whose call raised.
CallRaised ==
    {r \in DOMAIN responses :
        "exception" \in DOMAIN responses[r] \/ "error" \in DOMAIN responses[r]}
\* Every request of the chaos test has returned or raised.
AllAnswered == \A r \in DOMAIN req_pc : req_pc[r] \in {"done", "raised"}

\* C18: in the concurrent scenarios (the burst, the concurrent duplicates) a
\* call that raises is recorded as a failed attempt of its request and does
\* not end the test with the exception: once every request is answered the
\* scenario prints its report.
C18_TransportFailureIsRecorded ==
    scenario \in {"backpressure", "concurrent"} =>
        /\ verdict # "Exception"
        /\ \A r \in CallRaised :
              /\ IsDict(responses[r])
              /\ ~IsSuccess(responses[r].status)
        /\ (AllAnswered /\ chaos_report = Pending) =>
              ENABLED (BackpressureReport \/ ConcurrentReport)

\* The test has ended and every one of its writes was answered.
DuplicatesDone(which) ==
    scenario = which /\ AllAnswered /\ verdict \notin {"running", "Exception"}
\* C20: sequential duplicates that produced more than one distinct
\* identifier fail the scenario; concurrent ones pass whatever the number of
\* distinct identifiers, which is reported.
C20_SequentialDuplicatesFail ==
    /\ (DuplicatesDone("sequential") /\ Cardinality(IssuedIds) > 1) =>
          verdict = "AssertionError"
    /\ DuplicatesDone("concurrent") =>
          /\ verdict = "passed"
          /\ "unique_placements" \in DOMAIN chaos_report =>
                chaos_report.unique_placements = Cardinality(IssuedIds)

\* The sum of the values of a function with a finite domain.
RECURSIVE SumOver(_, _)
SumOver(f, S) ==
    IF S = {} THEN 0
    ELSE LET k == CHOOSE j \in S : TRUE IN f[k] + SumOver(f, S \ {k})
\* The burst requests whose call raised.
BurstRaised == {r \in Requests : "error" \in DOMAIN responses[r]}

\* C21: in the backpressure burst every request yields exactly one recorded
\* outcome, whatever the order of the replies (the status distribution sums
\* to the number of requests); 200 and 201 count as success, 429 as
\* rate-limited, a status of 500 or more as server error, a raising call is
\* recorded with status 0 and counts in none of the three, as does a reply
\* with any other status (404); the test passes if and only if fewer than 10
\* server errors were counted.
C21_BurstOutcomes ==
    scenario = "backpressure" =>
      /\ \A r \in Requests :
            /\ req_pc[r] = "done" <=> responses[r] # Pending
            /\ req_pc[r] = "done" => "status" \in DOMAIN responses[r]
      /\ verdict # "running" <=> chaos_report # Pending
      /\ chaos_report # Pending =>
          LET f == chaos_report
              K == Cardinality(Requests)
              with(S) == Cardinality({r \in Requests : responses[r].status \in S})
          IN  /\ \A r \in Requests : req_pc[r] = "done"
              /\ SumOver(f.status_codes, DOMAIN f.status_codes) = K
              /\ \A r \in BurstRaised : responses[r].status = 0
              /\ f.successful = with({200, 201})
              /\ f.rate_limited = with({429})
              /\ f.errors = with(500..599)
              /\ BurstRaised # {} =>
                    f.status_codes[0] = Cardinality(BurstRaised)
              /\ f.successful + f.rate_limited + f.errors
                    = with({200, 201, 429} \cup (500..599))
              /\ f.successful + f.rate_limited + f.errors
                    <= K - Cardinality(BurstRaised)
              /\ verdict = "passed" <=> f.errors < 10
              /\ verdict \in {"passed", "AssertionError"}
C21_Witness ==
    /\ scenario = "backpressure"
    /\ verdict = "AssertionError"
    /\ chaos_report # Pending
    /\ chaos_report.errors = 10
    /\ chaos_report.successful >= 1
    /\ BurstRaised # {}
    /\ \E r \in BurstRaised : r > MaxServerErrors
    /\ \E r \in Requests : responses[r].status = 404
    /\ chaos_report.successful + chaos_report.rate_limited
          + chaos_report.errors < Cardinality(Requests) - Cardinality(BurstRaised)

\* C22: every result of a probe whose write succeeded has
\* consistency_latency_ms >= write_latency_ms >= 0, whether the probe ended
\* consistent or timed out and however many polls it made, none included
\* (the clock of the model never goes backwards).
C22_LatenciesOrdered ==
    \A i \in Polled :
        /\ outcome[i].write_latency_ms >= 0
        /\ outcome[i].consistency_latency_ms >= outcome[i].write_latency_ms
C22_Witness ==
    /\ MaxPolls(slo) = 0
    /\ \E i \in Polled :
          /\ outcome[i].poll_count = 0
          /\ ~outcome[i].consistent
          /\ outcome[i].write_latency_ms > 0
          /\ outcome[i].consistency_latency_ms >= outcome[i].write_latency_ms
C22_WitnessPolled ==
    \E i \in Polled :
        /\ outcome[i].poll_count >= 2
        /\ outcome[i].consistent
        /\ outcome[i].write_latency_ms > 0
        /\ outcome[i].consistency_latency_ms > outcome[i].write_latency_ms

\* The aggregated results that reached consistency, and the other ones that
\* carry a latency (the timed-out ones).
ConsistentResults == SelectSeq(results, LAMBDA r : r.consistent)
TimedOutResults ==
    SelectSeq(results, LAMBDA r : "poll_count" \in DOMAIN r /\ ~r.consistent)

\* C23: the aggregate's percentiles, minimum and maximum are taken over the
\* consistency latencies of the results with consistent true only: each is
\* the latency of a consistent result, none exceeds the consistent results'
\* largest or falls below their smallest, and all are what the consistent
\* results alone would give; total_events and slo_percentage are taken over
\* all the aggregated results.
C23_StatsOverConsistentOnly ==
    (report # Pending /\ results # <<>>) =>
        /\ report.total_events = Len(results)
        /\ ConsistentResults # <<>> =>
            LET cons == {ConsistentResults[k].consistency_latency_ms :
                            k \in DOMAIN ConsistentResults}
                alone == AnalyzeResults(ConsistentResults)
            IN  /\ StatKeys \subseteq DOMAIN report
                /\ \A key \in StatKeys :
                      /\ report[key] \in cons
                      /\ report[key] = alone[key]
                /\ \A x \in cons :
                      /\ report.min_latency_ms <= x
                      /\ x <= report.max_latency_ms
                /\ report.consistent_count = Len(ConsistentResults)
                /\ SamePercentage(report.slo_percentage,
                                  Percentage(WithinCount, Len(results)))

\* Results have been aggregated of which one is consistent, one had its
\* write refused and one timed out later than every consistent one.
C23_Witness ==
    /\ report # Pending
    /\ ConsistentResults # <<>>
    /\ \E k \in DOMAIN results : "error" \in DOMAIN results[k]
    /\ \E k \in DOMAIN TimedOutResults :
          TimedOutResults[k].consistency_latency_ms > report.max_latency_ms
    /\ report.total_events > report.consistent_count
    /\ report.slo_percentage.num > 0

\* Between two steps of the producer: a publish starts only from the top of
\* the loop, with the rate of the elapsed time; its return, successful or
\* not, counts the attempt, moves on to the next event and suspends the loop
\* with the rate taken before the publish; the suspension ends only when
\* that delay has elapsed, and leads back to the top of the loop.
C24_Step ==
    /\ (p_pc # "publishing" /\ p_pc' = "publishing") =>
          /\ p_pc = "loop"
          /\ events_sent < total_events
          /\ current_rate' = CurrentRate(config, now - p_start_time)
          /\ sink_log' = sink_log
    /\ (p_pc = "publishing" /\ p_pc' # "publishing") =>
          /\ p_pc' = "sleeping"
          /\ Len(sink_log') = Len(sink_log) + 1
          /\ events_sent' = events_sent + 1
          /\ next_event' = next_event + 1
          /\ current_rate' = current_rate
          /\ p_sleep_start' = now
    /\ (p_pc = "sleeping" /\ p_pc' # "sleeping") =>
          /\ p_pc' = "loop"
          /\ SleepOver(current_rate, now - p_sleep_start)
          /\ sink_log' = sink_log
    /\ p_pc # "publishing" => sink_log' = sink_log
\* While the producer runs: the attempts made are the events counted, the
\* event in flight is the one after them, and the events kept are exactly
\* the attempts that succeeded, each once and in order.
C24_Sequential ==
    p_pc \in {"loop", "publishing", "sleeping", "returned", "raised"} =>
        /\ events_sent = Attempts
        /\ next_event = Attempts + 1
        /\ produced_events =
              SelectSeq([k \in 1..Attempts |-> k], LAMBDA k : sink_log[k])
        /\ errors = Failed

\* C24: the producer is one loop: a publish starts only after the one before
\* has returned and one pacing suspension has elapsed, so at most one is in
\* flight; a failed publish is dropped and its event never published again;
\* and the suspension after a failed publish is the one the elapsed time at
\* the top of the loop gives, the same as after a successful one.
C24_OnePublishAtATime == []C24_Sequential /\ [][C24_Step]_vars

\* The first publish failed, the loop slept and the second event was
\* published and kept: the first event was not sent again.
C24_Witness ==
    /\ Attempts >= 2
    /\ ~sink_log[1]
    /\ sink_log[2]
    /\ produced_events = <<2>>
    /\ p_pc = "sleeping"

\* The lists that hold the elements of xs in some order.
Orderings(xs) ==
    {[k \in DOMAIN xs |-> xs[p[k]]] :
        p \in {q \in [DOMAIN xs -> DOMAIN xs] :
                  \A a, b \in DOMAIN xs : a # b => q[a] # q[b]}}

\* C25: the probes of a batch share no mutable state.  Whatever the
\* interleaving, the placement_id, consistent and poll_count of a probe's
\* result are those its own write reply and its own reads give; every probe
\* that returned has exactly one result in the batch's list, whole and in
\* the order of launch; and the aggregate is that of the results in any
\* order.
C25_ProbesIndependent ==
    /\ \A i \in Polled :
          /\ outcome[i].correlation_id = i
          /\ outcome[i].placement_id = post_reply[i].id
          /\ outcome[i].consistent <=> first_hit[i] > 0
          /\ outcome[i].poll_count = Len(get_keys[i])
          /\ outcome[i].poll_count =
                IF first_hit[i] > 0 THEN first_hit[i] ELSE MaxPolls(slo)
    /\ \A i \in WriteFailed : outcome[i].error = post_reply[i].status
    /\ report # Pending =>
          /\ Len(results) = Cardinality(Returned)
          /\ \A i \in Returned :
                \E k \in DOMAIN results :
                    /\ results[k] = outcome[i]
                    /\ ResultsOf(i) = {k}
          /\ \A k, l \in DOMAIN results :
                k < l => results[k].correlation_id < results[l].correlation_id
          /\ \A rs \in Orderings(results) : AnalyzeResults(rs) = report

\* Two probes polled concurrently (the replies to their writes came in the
\* opposite order of their launch), ended differently and were aggregated.
C25_Witness ==
    /\ report # Pending
    /\ Len(results) = 2
    /\ post_reply[1].id > post_reply[2].id
    /\ \A i \in {1, 2} : i \in Polled /\ outcome[i].poll_count >= 1
    /\ outcome[1].consistent
    /\ ~outcome[2].consistent

\* The ways probe i has ended in: its write was refused, it ended
\* consistent, it timed out at the poll bound, or its write step raised (the
\* call itself, or the reading of placement id from its reply).
EndingsOf(i) ==
    {e \in {"WRITE_FAILED", "CONSISTENT", "TIMED_OUT", "RAISED"} :
        CASE e = "WRITE_FAILED" -> i \in WriteFailed
          [] e = "CONSISTENT" -> i \in Polled /\ outcome[i].consistent
          [] e = "TIMED_OUT" ->
                /\ i \in Polled
                /\ ~outcome[i].consistent
                /\ outcome[i].poll_count = MaxPolls(slo)
          [] OTHER ->
                /\ pc[i] = "raised"
                /\ post_reply[i].kind \in {"raises", "malformed"}
                /\ get_keys[i] = <<>>}
\* No probe reads more often than the poll bound, and a probe that is over
\* has ended in exactly one way.
C26_OneEnding ==
    \A i \in Launched :
        /\ Len(get_keys[i]) <= MaxPolls(slo)
        /\ IF pc[i] \in {"done", "raised"}
           THEN Cardinality(EndingsOf(i)) = 1
           ELSE EndingsOf(i) = {}

\* C26: when every call of the request client returns or raises in the
\* end, every probe ends, in exactly one of four ways (write refused,
\* consistent, timed out, exception from the write) and after at most the
\* poll bound of reads; and so the sweep of N probes completes and returns
\* its report.
C26_SweepTerminates ==
    /\ []C26_OneEnding
    /\ <>(\A i \in Launched : pc[i] \in {"done", "raised"})
    /\ <>(report # Pending)

\* A sweep has returned its report, a probe of it having timed out after
\* the two polls or more its bound allows.
C26_Witness ==
    /\ report # Pending
    /\ \E i \in Launched :
          /\ EndingsOf(i) = {"TIMED_OUT"}
          /\ outcome[i].poll_count >= 2
          /\ Len(get_keys[i]) = MaxPolls(slo)

\* C27: every aggregate of a sweep of N probes has total_events <= N,
\* 0 <= within_slo_count <= consistent_count <= total_events and
\* 0 <= slo_percentage <= 100, whatever the probes' outcomes (a figure the
\* aggregate does not carry is not constrained).
C27_AggregateBounds ==
    report # Pending =>
        /\ "total_events" \in DOMAIN report =>
              /\ report.total_events <= num_events
              /\ report.consistent_count <= report.total_events
              /\ report.consistent_count >= 0
        /\ "within_slo_count" \in DOMAIN report =>
              /\ 0 <= report.within_slo_count
              /\ report.within_slo_count <= report.consistent_count
        /\ "slo_percentage" \in DOMAIN report =>
              /\ 0 <= report.slo_percentage.num
              /\ report.slo_percentage.num <= 100 * report.slo_percentage.den
====
